---- MODULE Spec2Model ----
(***************************************************************************)
(* Model of the wiki-engine backend: the time-boxed, capacity-bounded      *)
(* cache (cache.rs) and the recursive analysis engine (lib.rs).            *)
(***************************************************************************)
EXTENDS Integers, Sequences, FiniteSets, TLC

(* ---------------------------------------------------------------------- *)
(* Bounds of the model                                                     *)
(* ---------------------------------------------------------------------- *)
MaxTime == 3          \* the clock stops advancing after this instant
MaxOps == 3           \* number of cache API calls explored in SpecCache
CacheKeys == {"k1", "k2", "k3"}
CacheVals == {"v1", "v2"}
MaxRequests == 2      \* number of analyze requests explored in Spec
MaxDepth == 2         \* largest max_depth a request asks for
MaxResults == 2       \* largest max_results a request asks for
Terms == {"a", "b", "c"}

(* ---------------------------------------------------------------------- *)
(* Cache configuration (WikiEngineCache::with_config)                      *)
(* ---------------------------------------------------------------------- *)
page_ttl == 1
principle_ttl == 2
max_entries == 2

None == [none |-> TRUE]

VARIABLES
    wikipedia_pages,   \* store: key -> CacheEntry
    principles,        \* store: key -> CacheEntry
    analysis_nodes,    \* store: key -> CacheEntry
    now,               \* the monotonic clock read by Instant::now()
    ops,               \* number of cache API calls made so far
    last,              \* record of the last cache API call (observation)
    phase,             \* "idle" or "running": position of analyze_recursive
    req,               \* the request being served: term, max_depth, max_results
    stack,             \* call stack of analyze_term_recursive, root first
    visited,           \* the request's path-visited set (Arc<Mutex<HashSet>>)
    ret,               \* what the call that returned in the last step returned
    result,            \* what analyze_recursive returned last
    fresh,             \* the result computed by the last subtree-cache miss
    stats,             \* counters: requests made, provider calls and
                       \* recursive calls of the current request
    input,             \* the argument of the pure function under study
    output,            \* its return value, once it has been applied
    tasks              \* concurrent callers of the cache: position in the
                       \* call each is making, and that call's locals

cacheVars == <<wikipedia_pages, principles, analysis_nodes, now>>
apiVars == <<ops, last>>
engineVars == <<phase, req, stack, visited, ret, result, fresh, stats>>
pureVars == <<input, output>>
vars == <<wikipedia_pages, principles, analysis_nodes, now, ops, last,
          phase, req, stack, visited, ret, result, fresh, stats, input, output,
          tasks>>

EmptyStore == [k \in {} |-> None]

(* the callers that may use the cache at the same time: request handlers  *)
(* and the cleanup task run on the runtime's worker threads                *)
Tasks == {"t1", "t2"}

(* a caller that is not inside a cache call *)
IdleTask == [pc |-> "idle", key |-> "", data |-> "", pending |-> {}]

(* CacheEntry::new *)
NewEntry(data) == [data |-> data, timestamp |-> now, access_count |-> 1]

(* CacheEntry::is_expired: self.timestamp.elapsed() > ttl *)
(* an expiry test that also expires an entry aged exactly the TTL *)
IsExpiredAtTtl(e, ttl) == now - e.timestamp >= ttl

IsExpired(e, ttl) == now - e.timestamp > ttl

(* CacheEntry::access *)
(* an access that also renews the entry's creation time *)
AccessRenews(e) == [e EXCEPT !.access_count = @ + 1, !.timestamp = now]

Access(e) == [e EXCEPT !.access_count = @ + 1]

Remove(store, key) == [k \in DOMAIN store \ {key} |-> store[k]]

Insert(store, key, e) == [k \in DOMAIN store \cup {key} |-> IF k = key THEN e ELSE store[k]]

(* get_wikipedia_page / get_principles / get_analysis_node: the store     *)
(* after the read, whether it is a hit, and the value returned.           *)
(* a read that never serves a stored entry *)
GetEntryNeverHits(store, key, ttl) ==
    [store |-> store, hit |-> FALSE, out |-> None]

GetEntry(store, key, ttl) ==
    IF key \in DOMAIN store
    THEN IF ~IsExpired(store[key], ttl)
         THEN [store |-> [store EXCEPT ![key] = Access(@)], hit |-> TRUE,
               out |-> store[key].data]
         ELSE [store |-> Remove(store, key), hit |-> FALSE, out |-> None]
    ELSE [store |-> store, hit |-> FALSE, out |-> None]

(* evict_oldest: oldest_time starts at Instant::now(); an entry is chosen *)
(* only if its timestamp is strictly smaller than the running minimum,    *)
(* so the entry removed is the first one met, in the map's iteration      *)
(* order, among those with the least timestamp below now.  The result is  *)
(* the set of stores the scan can leave.                                   *)
EvictOldest(store) ==
    LET older == {k \in DOMAIN store : store[k].timestamp < now}
        oldest == {k \in older : \A j \in older : store[k].timestamp <= store[j].timestamp}
    IN  IF older = {} THEN {store}
        ELSE {Remove(store, k) : k \in oldest}

(* ensure_capacity *)
EnsureCapacity(store) ==
    IF Cardinality(DOMAIN store) >= max_entries
    THEN EvictOldest(store)
    ELSE {store}

(* cache_wikipedia_page / cache_principles / cache_analysis_node *)
CacheWrite(store, key, data) ==
    {Insert(s, key, NewEntry(data)) : s \in EnsureCapacity(store)}

(* cleanup_expired_entries *)
(* a sweep whose filter is inverted: it keeps the expired entries *)
CleanupKeepsExpired(store, ttl) ==
    [k \in {j \in DOMAIN store : IsExpired(store[j], ttl)} |-> store[k]]

CleanupExpiredEntries(store, ttl) ==
    [k \in {j \in DOMAIN store : ~IsExpired(store[j], ttl)} |-> store[k]]

Stores == {"wikipedia_pages", "principles", "analysis_nodes"}

StoreOf(name) ==
    CASE name = "wikipedia_pages" -> wikipedia_pages
      [] name = "principles" -> principles
      [] name = "analysis_nodes" -> analysis_nodes

(* TTL each store is read with: pages use page_ttl, principle sets and    *)
(* analysis subtrees both use principle_ttl.                               *)
TtlOf(name) == IF name = "wikipedia_pages" THEN page_ttl ELSE principle_ttl

SetStore(name, s) ==
    /\ wikipedia_pages' = IF name = "wikipedia_pages" THEN s ELSE wikipedia_pages
    /\ principles' = IF name = "principles" THEN s ELSE principles
    /\ analysis_nodes' = IF name = "analysis_nodes" THEN s ELSE analysis_nodes

NoCall == [op |-> "none"]

NoRet == [kind |-> "none"]
NoResult == [kind |-> "none"]

EngineInit ==
    /\ phase = "idle"
    /\ req = [term |-> "a", max_depth |-> 0, max_results |-> 0]
    /\ stack = <<>>
    /\ visited = {}
    /\ ret = NoRet
    /\ result = NoResult
    /\ fresh = NoResult
    /\ stats = [requests |-> 0, fetches |-> 0, calls |-> 0]

(* ---------------------------------------------------------------------- *)
(* The cache API called directly                                           *)
(* ---------------------------------------------------------------------- *)
(* WikiEngineCache::with_config and WikiEngine::new *)
ServiceInit ==
    /\ wikipedia_pages = EmptyStore
    /\ principles = EmptyStore
    /\ analysis_nodes = EmptyStore
    /\ now = 0
    /\ ops = 0
    /\ last = NoCall
    /\ EngineInit
    /\ tasks = [t \in Tasks |-> IdleTask]

CacheInit ==
    /\ ServiceInit
    /\ input = None
    /\ output = None

Get(name, key) ==
    /\ ops < MaxOps
    /\ LET r == GetEntry(StoreOf(name), key, TtlOf(name))
       IN  /\ SetStore(name, r.store)
           /\ last' = [op |-> "get", store |-> name, key |-> key, hit |-> r.hit, out |-> r.out,
                       before |-> StoreOf(name), at |-> now]
    /\ ops' = ops + 1
    /\ UNCHANGED <<now, engineVars>>
    /\ UNCHANGED <<pureVars, tasks>>

Put(name, key, data) ==
    /\ ops < MaxOps
    /\ \E s \in CacheWrite(StoreOf(name), key, data) :
          /\ SetStore(name, s)
          /\ last' = [op |-> "put", store |-> name, key |-> key, data |-> data,
                      before |-> StoreOf(name), at |-> now]
    /\ ops' = ops + 1
    /\ UNCHANGED <<now, engineVars>>
    /\ UNCHANGED <<pureVars, tasks>>

(* cleanup_expired *)
CleanupExpired ==
    /\ ops < MaxOps
    /\ wikipedia_pages' = CleanupExpiredEntries(wikipedia_pages, page_ttl)
    /\ principles' = CleanupExpiredEntries(principles, principle_ttl)
    /\ analysis_nodes' = CleanupExpiredEntries(analysis_nodes, principle_ttl)
    /\ last' = [op |-> "sweep", at |-> now,
                before |-> [n \in Stores |-> StoreOf(n)]]
    /\ ops' = ops + 1
    /\ UNCHANGED <<now, engineVars>>
    /\ UNCHANGED <<pureVars, tasks>>

(* clear_all *)
ClearAll ==
    /\ ops < MaxOps
    /\ wikipedia_pages' = EmptyStore
    /\ principles' = EmptyStore
    /\ analysis_nodes' = EmptyStore
    /\ last' = [op |-> "clear", at |-> now]
    /\ ops' = ops + 1
    /\ UNCHANGED <<now, engineVars>>
    /\ UNCHANGED <<pureVars, tasks>>

(* The clock advances between calls and while a request waits for the    *)
(* content provider (Instant is monotonic, not strictly increasing: two   *)
(* reads may return the same instant).  Time is counted from the first    *)
(* call.                                                                    *)
Tick ==
    /\ now < MaxTime
    /\ ops > 0 \/ stats.requests > 0
    /\ phase = "running" => stack[Len(stack)].pc = "fetch"
    /\ now' = now + 1
    /\ UNCHANGED <<wikipedia_pages, principles, analysis_nodes, ops, last, engineVars>>
    /\ UNCHANGED <<pureVars, tasks>>

CacheNext ==
    \/ \E n \in Stores, k \in CacheKeys : Get(n, k)
    \/ \E n \in Stores, k \in CacheKeys, d \in CacheVals : Put(n, k, d)
    \/ CleanupExpired
    \/ ClearAll
    \/ Tick

SpecCache == CacheInit /\ [][CacheNext]_vars

(* ---------------------------------------------------------------------- *)
(* The recursive analysis engine (lib.rs)                                  *)
(* ---------------------------------------------------------------------- *)
U8 == 256

Min(x, y) == IF x <= y THEN x ELSE y

(* generate_analysis_cache_key: format!("analysis:{}:{}:{}", ...) *)
(* a key that leaves max_depth out *)
KeyWithoutDepth(term, max_depth, max_results) ==
    "analysis:" \o term \o ":" \o ToString(max_results)

GenerateAnalysisCacheKey(term, max_depth, max_results) ==
    "analysis:" \o term \o ":" \o ToString(max_depth) \o ":" \o ToString(max_results)

(* AnalysisNode (processing_time_ms, a wall-clock measurement, is left out) *)
Node(term, prins, children, depth) ==
    [term |-> term, principles |-> prins, children |-> children, depth |-> depth]

LeafNode(term, depth) == Node(term, <<>>, EmptyStore, depth)

(* a count that looks at the root node only *)
CountRootOnly(node) == Len(node.principles)

RECURSIVE count_principles(_)
RECURSIVE CountChildren(_, _)
(* the loop of count_principles over node.children.values() *)
CountChildren(children, keys) ==
    IF keys = {} THEN 0
    ELSE LET k == CHOOSE x \in keys : TRUE
         IN  count_principles(children[k]) + CountChildren(children, keys \ {k})

(* count_principles *)
count_principles(node) ==
    Len(node.principles) + CountChildren(node.children, DOMAIN node.children)

RECURSIVE calculate_max_depth(_)
RECURSIVE MaxChildren(_, _, _)
(* the loop of calculate_max_depth over node.children.values() *)
MaxChildren(children, keys, acc) ==
    IF keys = {} THEN acc
    ELSE LET k == CHOOSE x \in keys : TRUE
             m == calculate_max_depth(children[k])
         IN  MaxChildren(children, keys \ {k}, IF m > acc THEN m ELSE acc)

(* calculate_max_depth *)
calculate_max_depth(node) ==
    MaxChildren(node.children, DOMAIN node.children, node.depth)

(* The texts the content provider serves, each identified by the set of   *)
(* concept names it mentions: no concept, one concept, or all of them     *)
(* (with max_results <= 2 these give every list of concepts a node can    *)
(* select).                                                                *)
LinkSets == {S \in SUBSET Terms : Cardinality(S) # 2}

(* WikipediaPage as returned by get_page_extract *)
Pages(term) == [title : {term}, links : LinkSets]

(* combined_principles.truncate(8) *)
MaxPrinciples == 8

(* get_or_analyze_principles on a principle-cache miss (lines 213-240):   *)
(* the merged list, cut to MaxPrinciples entries.  A text yields one      *)
(* principle per concept it mentions.                                      *)
AnalyzePrinciples(page) ==
    [i \in 1..Min(Cardinality(page.links), MaxPrinciples) |-> page.title]

(* Sequences of n distinct elements of S *)
InjSeqs(S, n) ==
    {q \in [1..n -> S] : \A i, j \in 1..n : i # j => q[i] # q[j]}

(* extract_related_concepts: a HashSet drained in its iteration order,    *)
(* cut to 15 entries.                                                      *)
ExtractRelatedConcepts(page) ==
    InjSeqs(page.links, Min(Cardinality(page.links), 15))

Take(q, n) == SubSeq(q, 1, Min(Len(q), n))

NewFrame(term, depth) ==
    [term |-> term, depth |-> depth, pc |-> "enter", page |-> None,
     principles |-> <<>>, selected |-> <<>>, concepts |-> <<>>,
     children |-> EmptyStore,
     called |-> {},          \* the concepts this call recursed into
     failed |-> {},          \* those whose recursive call returned Err
     saved |-> visited]      \* saved: the visited set when the call was made

Top == stack[Len(stack)]

SetTop(f) == [stack EXCEPT ![Len(stack)] = f]

OkRet(node) == [kind |-> "ok", node |-> node]
ErrRet == [kind |-> "err"]

(* a loop that forgets the children collected so far when a call fails *)
AbsorbErrDropsChildren(parent, concept) ==
    [parent EXCEPT !.pc = "loop", !.failed = @ \cup {concept},
                   !.children = EmptyStore]

(* a loop that puts an empty leaf in the place of a failed call *)
AbsorbErrAsLeaf(parent, concept) ==
    [parent EXCEPT !.pc = "loop", !.failed = @ \cup {concept},
                   !.children = Insert(@, concept, LeafNode(concept, parent.depth + 1))]

(* lines 166-168: the Err of a child call is logged, the loop goes on *)
AbsorbErr(parent, concept) ==
    [parent EXCEPT !.pc = "loop", !.failed = @ \cup {concept}]

(* The value val returned by the innermost call reaches its caller, with  *)
(* vis the visited set the call leaves and how the place the call returns *)
(* from.  The caller is either the loop of the parent call (lines         *)
(* 156-170) or analyze_recursive (lines 59-87).                            *)
Deliver(val, vis, how) ==
    /\ visited' = IF Len(stack) = 1 THEN {} ELSE vis
    /\ ret' = [kind |-> val.kind, how |-> how, term |-> Top.term,
               saved |-> Top.saved, depth |-> Top.depth,
               node |-> IF val.kind = "ok" THEN val.node ELSE None,
               principles |-> Top.principles, selected |-> Top.selected,
               called |-> Top.called, failed |-> Top.failed]
    /\ IF Len(stack) = 1
       THEN /\ stack' = <<>>
            /\ phase' = "idle"
            /\ IF val.kind = "ok"
               THEN /\ \E s \in CacheWrite(analysis_nodes,
                                GenerateAnalysisCacheKey(req.term, req.max_depth, req.max_results),
                                val.node) : analysis_nodes' = s
                    /\ result' = [kind |-> "ok", root_term |-> req.term, tree |-> val.node,
                                  total_principles |-> count_principles(val.node),
                                  max_depth_reached |-> calculate_max_depth(val.node),
                                  cached |-> FALSE]
                    /\ fresh' = [kind |-> "ok", req |-> req,
                                 key |-> GenerateAnalysisCacheKey(req.term, req.max_depth, req.max_results),
                                 tree |-> val.node,
                                 total_principles |-> count_principles(val.node),
                                 max_depth_reached |-> calculate_max_depth(val.node)]
               ELSE /\ analysis_nodes' = analysis_nodes
                    /\ result' = [kind |-> "err"]
                    /\ fresh' = fresh
       ELSE LET parent == stack[Len(stack) - 1]
                concept == Top.term
                parent2 == IF val.kind = "ok"
                           THEN [parent EXCEPT !.pc = "loop",
                                    !.children = Insert(@, concept, val.node)]
                           ELSE AbsorbErr(parent, concept)
            IN  /\ stack' = [SubSeq(stack, 1, Len(stack) - 1) EXCEPT ![Len(stack) - 1] = parent2]
                /\ phase' = phase
                /\ analysis_nodes' = analysis_nodes
                /\ result' = result
                /\ fresh' = fresh

(* analyze_recursive up to the first recursive call (lines 34-65) *)
Request(term, max_depth, max_results) ==
    /\ phase = "idle"
    /\ LET key == GenerateAnalysisCacheKey(term, max_depth, max_results)
           g == GetEntry(analysis_nodes, key, principle_ttl)
       IN  /\ analysis_nodes' = g.store
           /\ req' = [term |-> term, max_depth |-> max_depth, max_results |-> max_results]
           /\ stats' = [requests |-> stats.requests + 1, fetches |-> 0, calls |-> 0]
           /\ ret' = NoRet
           /\ visited' = {}
           /\ IF g.hit
              THEN /\ result' = [kind |-> "ok", root_term |-> term, tree |-> g.out,
                                 total_principles |-> count_principles(g.out),
                                 max_depth_reached |-> calculate_max_depth(g.out),
                                 cached |-> TRUE]
                   /\ fresh' = fresh
                   /\ phase' = "idle"
                   /\ stack' = <<>>
              ELSE /\ result' = NoResult
                   /\ fresh' = NoResult
                   /\ phase' = "running"
                   /\ stack' = <<[NewFrame(term, 0) EXCEPT !.saved = {}]>>
    /\ UNCHANGED <<wikipedia_pages, principles, now, apiVars>>
    /\ UNCHANGED <<pureVars, tasks>>

(* a depth test that lets the expansion go one level too deep *)
BaseCaseOffByOne(term, current_depth) ==
    term \in visited \/ current_depth > req.max_depth

(* line 104: visited_lock.contains(term) || current_depth >= max_depth *)
BaseCase(term, current_depth) ==
    term \in visited \/ current_depth >= req.max_depth

(* analyze_term_recursive, lines 101-115: base case and cycle guard *)
Enter ==
    /\ phase = "running"
    /\ Top.pc = "enter"
    /\ stats' = [stats EXCEPT !.calls = @ + 1]
    /\ IF BaseCase(Top.term, Top.depth)
       THEN Deliver(OkRet(LeafNode(Top.term, Top.depth)), visited, "base")
       ELSE /\ visited' = visited \cup {Top.term}
            /\ stack' = SetTop([Top EXCEPT !.pc = "fetch"])
            /\ ret' = NoRet
            /\ UNCHANGED <<phase, result, fresh, analysis_nodes>>
    /\ UNCHANGED <<wikipedia_pages, principles, now, apiVars, req>>
    /\ UNCHANGED <<pureVars, tasks>>

(* get_or_fetch_page, lines 186-190: the page store has the page *)
FetchCached ==
    /\ phase = "running"
    /\ Top.pc = "fetch"
    /\ LET g == GetEntry(wikipedia_pages, Top.term, page_ttl)
       IN  /\ g.hit
           /\ wikipedia_pages' = g.store
           /\ stack' = SetTop([Top EXCEPT !.pc = "analyze", !.page = g.out])
    /\ ret' = NoRet
    /\ UNCHANGED <<principles, analysis_nodes, now, apiVars, phase, req, visited, result, fresh, stats>>
    /\ UNCHANGED <<pureVars, tasks>>

(* a provider failure that is turned into an empty leaf *)
FetchFailedAsLeaf(term, current_depth) == OkRet(LeafNode(term, current_depth))

(* line 119: the `?` returns the provider's Err from the call *)
FetchFailed(term, current_depth) == ErrRet

(* a missing page that is reported as a failure *)
NoPageAsErr(term, current_depth) == ErrRet

(* lines 121-130: no page, the call returns Ok with an empty leaf *)
NoPage(term, current_depth) == OkRet(LeafNode(term, current_depth))

(* get_or_fetch_page, line 194, the provider call fails: `?` leaves       *)
(* get_or_fetch_page and then analyze_term_recursive (line 119)           *)
FetchErr ==
    /\ phase = "running"
    /\ Top.pc = "fetch"
    /\ LET g == GetEntry(wikipedia_pages, Top.term, page_ttl)
       IN  /\ ~g.hit
           /\ wikipedia_pages' = g.store
    /\ stats' = [stats EXCEPT !.fetches = @ + 1]
    /\ Deliver(FetchFailed(Top.term, Top.depth), visited, "error")
    /\ UNCHANGED <<principles, now, apiVars, req>>
    /\ UNCHANGED <<pureVars, tasks>>

(* get_or_fetch_page, line 199, the provider has no such page: lines      *)
(* 121-130 return an empty leaf                                            *)
FetchMissing ==
    /\ phase = "running"
    /\ Top.pc = "fetch"
    /\ LET g == GetEntry(wikipedia_pages, Top.term, page_ttl)
       IN  /\ ~g.hit
           /\ wikipedia_pages' = g.store
    /\ stats' = [stats EXCEPT !.fetches = @ + 1]
    /\ Deliver(NoPage(Top.term, Top.depth), visited, "missing")
    /\ UNCHANGED <<principles, now, apiVars, req>>
    /\ UNCHANGED <<pureVars, tasks>>

(* get_or_fetch_page, lines 195-198: the provider returns a page, which   *)
(* is written to the page store                                            *)
FetchPage(page) ==
    /\ phase = "running"
    /\ Top.pc = "fetch"
    /\ LET g == GetEntry(wikipedia_pages, Top.term, page_ttl)
       IN  /\ ~g.hit
           /\ \E s \in CacheWrite(g.store, Top.term, page) : wikipedia_pages' = s
    /\ stats' = [stats EXCEPT !.fetches = @ + 1]
    /\ stack' = SetTop([Top EXCEPT !.pc = "analyze", !.page = page])
    /\ ret' = NoRet
    /\ UNCHANGED <<principles, analysis_nodes, now, apiVars, phase, req, visited, result, fresh>>
    /\ UNCHANGED <<pureVars, tasks>>

(* analyze_term_recursive, lines 133-147: principles of the page          *)
(* (get_or_analyze_principles, cache first) and the concepts to expand    *)
Analyze ==
    /\ phase = "running"
    /\ Top.pc = "analyze"
    /\ LET page == Top.page
           g == GetEntry(principles, page.title, principle_ttl)
       IN  \E related \in (IF Top.depth < req.max_depth
                           THEN ExtractRelatedConcepts(page) ELSE {<<>>}) :
           \E prins \in (IF g.hit THEN {g.out} ELSE {AnalyzePrinciples(page)}) :
              /\ IF g.hit
                 THEN principles' = g.store
                 ELSE \E s \in CacheWrite(g.store, page.title, prins) : principles' = s
              /\ stack' = SetTop([Top EXCEPT !.pc = "loop", !.principles = prins, !.page = None,
                                    !.selected = Take(related, req.max_results),
                                    !.concepts = Take(related, req.max_results)])
    /\ ret' = NoRet
    /\ UNCHANGED <<wikipedia_pages, analysis_nodes, now, apiVars, phase, req, visited, result, fresh, stats>>
    /\ UNCHANGED <<pureVars, tasks>>

(* should_analyze, lines 150-153 *)
(* a test that excludes only the current term, not the rest of the path *)
ShouldAnalyzeNoVisited(concept, term) == concept # term

(* a test that lets every concept through *)
ShouldAnalyzeAlways(concept, term) == TRUE

ShouldAnalyze(concept, term) == concept \notin visited /\ concept # term

(* a child that is given its parent's depth *)
ChildDepthSame(current_depth) == current_depth

(* line 158: current_depth + 1 on a u8 *)
ChildDepth(current_depth) == (current_depth + 1) % U8

(* a loop that does not advance past a concept it passes over *)
LoopSkipStuck ==
    /\ phase = "running"
    /\ Top.pc = "loop"
    /\ Top.concepts # <<>>
    /\ ~ShouldAnalyze(Head(Top.concepts), Top.term)
    /\ UNCHANGED vars

(* lines 149-162: the next concept is expanded by a recursive call *)
LoopCall ==
    /\ phase = "running"
    /\ Top.pc = "loop"
    /\ Top.concepts # <<>>
    /\ ShouldAnalyze(Head(Top.concepts), Top.term)
    /\ stack' = Append(SetTop([Top EXCEPT !.pc = "await", !.concepts = Tail(@),
                                          !.called = @ \cup {Head(Top.concepts)}]),
                       NewFrame(Head(Top.concepts), ChildDepth(Top.depth)))
    /\ ret' = NoRet
    /\ UNCHANGED <<cacheVars, apiVars, phase, req, visited, result, fresh, stats>>
    /\ UNCHANGED <<pureVars, tasks>>

(* lines 149-155: the next concept is passed over *)
LoopSkip ==
    /\ phase = "running"
    /\ Top.pc = "loop"
    /\ Top.concepts # <<>>
    /\ ~ShouldAnalyze(Head(Top.concepts), Top.term)
    /\ stack' = SetTop([Top EXCEPT !.concepts = Tail(@)])
    /\ ret' = NoRet
    /\ UNCHANGED <<cacheVars, apiVars, phase, req, visited, result, fresh, stats>>
    /\ UNCHANGED <<pureVars, tasks>>

(* lines 173-181: backtrack and return the node *)
LoopDone ==
    /\ phase = "running"
    /\ Top.pc = "loop"
    /\ Top.concepts = <<>>
    /\ Deliver(OkRet(Node(Top.term, Top.principles, Top.children, Top.depth)),
               visited \ {Top.term}, "done")
    /\ UNCHANGED <<wikipedia_pages, principles, now, apiVars, req, stats>>
    /\ UNCHANGED <<pureVars, tasks>>

(* start_cache_cleanup_task: the background sweep, cleanup_expired *)
Sweep ==
    /\ wikipedia_pages' = CleanupExpiredEntries(wikipedia_pages, page_ttl)
    /\ principles' = CleanupExpiredEntries(principles, principle_ttl)
    /\ analysis_nodes' = CleanupExpiredEntries(analysis_nodes, principle_ttl)
    /\ UNCHANGED <<now, apiVars, engineVars>>
    /\ UNCHANGED <<pureVars, tasks>>

(* clear_all, called between two requests *)
Clear ==
    /\ phase = "idle"
    /\ wikipedia_pages' = EmptyStore
    /\ principles' = EmptyStore
    /\ analysis_nodes' = EmptyStore
    /\ UNCHANGED <<now, apiVars, engineVars>>
    /\ UNCHANGED <<pureVars, tasks>>

(* The requests a client makes: a first request with any parameters, then *)
(* the same term and max_results again, with the same max_depth or with   *)
(* max_depth 1.                                                             *)
ClientAsks(term, max_depth, max_results) ==
    /\ stats.requests < MaxRequests
    /\ stats.requests > 0 =>
          /\ term = req.term
          /\ max_results = req.max_results
          /\ max_depth \in {req.max_depth, 1}

EngineStep ==
    \/ Enter
    \/ FetchCached
    \/ FetchErr
    \/ FetchMissing
    \/ (phase = "running" /\ \E p \in Pages(Top.term) : FetchPage(p))
    \/ Analyze
    \/ LoopCall
    \/ LoopSkip
    \/ LoopDone

Init == CacheInit

Next ==
    \/ \E t \in Terms, d \in 0..MaxDepth, r \in 0..MaxResults :
          ClientAsks(t, d, r) /\ Request(t, d, r)
    \/ EngineStep
    \/ Sweep
    \/ Clear
    \/ Tick

Spec == Init /\ [][Next]_vars

(* The request's future is polled until it completes: the provider call   *)
(* has a 30 s timeout (wikipedia.rs line 34), so every await returns.     *)
(* The term names are interchangeable, so the requests are for one root.  *)
RootTerm == "a"

NextLive ==
    \/ \E d \in 0..MaxDepth, r \in 0..MaxResults :
          ClientAsks(RootTerm, d, r) /\ Request(RootTerm, d, r)
    \/ EngineStep
    \/ Sweep
    \/ Clear
    \/ Tick

SpecLive == Init /\ [][NextLive]_vars /\ WF_vars(EngineStep)

(* ---------------------------------------------------------------------- *)
(* Properties                                                              *)
(* ---------------------------------------------------------------------- *)
RequestKey == GenerateAnalysisCacheKey(req.term, req.max_depth, req.max_results)

RECURSIVE PathsDistinct(_, _)
PathsDistinct(node, above) ==
    /\ node.term \notin above
    /\ \A k \in DOMAIN node.children :
          /\ node.children[k].term = k
          /\ PathsDistinct(node.children[k], above \cup {node.term})

(* C1: no concept name appears twice on a root-to-leaf path of a returned *)
(* tree, whatever the link graph, the missing pages and the fetch         *)
(* failures.                                                                *)
C1_NoRepeatOnPath ==
    result.kind = "ok" => PathsDistinct(result.tree, {})

(* a tree of depth 2 was returned for a graph with a cycle t -> u -> t *)
C1_Witness ==
    /\ result.kind = "ok"
    /\ ~result.cached
    /\ result.max_depth_reached = 2
    /\ \E t \in Terms, u \in Terms :
          /\ t # u
          /\ result.tree.term = t
          /\ u \in DOMAIN result.tree.children
          /\ DOMAIN result.tree.children[u].children # {}
          /\ {t, u} \subseteq DOMAIN wikipedia_pages
          /\ u \in wikipedia_pages[t].data.links
          /\ t \in wikipedia_pages[u].data.links

RECURSIVE DepthsFromRoot(_, _)
DepthsFromRoot(node, d) ==
    /\ node.depth = d
    /\ \A k \in DOMAIN node.children : DepthsFromRoot(node.children[k], d + 1)

(* C2: max_depth_reached is at most the requested max_depth, and every    *)
(* node's depth is its distance from the root.                             *)
C2_DepthBounded ==
    result.kind = "ok" =>
        /\ result.max_depth_reached <= req.max_depth
        /\ DepthsFromRoot(result.tree, 0)

(* a freshly computed tree that reaches the requested depth 2 *)
C2_Witness ==
    /\ result.kind = "ok"
    /\ ~result.cached
    /\ req.max_depth = 2
    /\ result.max_depth_reached = 2

StackTerms == {stack[i].term : i \in 1..Len(stack)}

(* C3: when a node has gone through its selected concepts, every selected *)
(* concept that is not the node itself or one of its ancestors, and whose *)
(* recursive call did not fail, is a child of the node.                    *)
C3_OnlyAncestorsExcluded ==
    (phase = "running" /\ Top.pc = "loop" /\ Top.concepts = <<>>) =>
        \A i \in 1..Len(Top.selected) :
            (Top.selected[i] \notin StackTerms /\ Top.selected[i] \notin Top.failed)
                => Top.selected[i] \in DOMAIN Top.children

(* C4: after a child call returned a failure, the path-visited set is the *)
(* set the parent held just before the call.                               *)
C4_VisitedRestoredOnFailure ==
    (phase = "running" /\ ret.kind = "err") => visited = ret.saved

(* C5: every request that starts a depth-first expansion returns. *)
C5_Terminates == (phase = "running") ~> (phase = "idle")

(* a request over linked pages returned after five recursive calls *)
C5_Witness ==
    /\ phase = "idle"
    /\ result.kind = "ok"
    /\ ~result.cached
    /\ stats.calls >= 5

RECURSIVE NodePaths(_)
NodePaths(node) ==
    {<<>>} \cup UNION {{<<k>> \o q : q \in NodePaths(node.children[k])} :
                        k \in DOMAIN node.children}

RECURSIVE NodeAt(_, _)
NodeAt(node, path) ==
    IF path = <<>> THEN node ELSE NodeAt(node.children[Head(path)], Tail(path))

RECURSIVE SumPrinciples(_, _)
SumPrinciples(tree, paths) ==
    IF paths = {} THEN 0
    ELSE LET q == CHOOSE x \in paths : TRUE
         IN  Len(NodeAt(tree, q).principles) + SumPrinciples(tree, paths \ {q})

(* C6: total_principles is the number of principles over all nodes of the *)
(* tree, and a result served from the subtree cache reports the totals of *)
(* the freshly computed result that populated the entry.                   *)
C6_TotalsMatchTree ==
    result.kind = "ok" =>
        /\ result.total_principles = SumPrinciples(result.tree, NodePaths(result.tree))
        /\ result.cached =>
              /\ fresh.kind = "ok"
              /\ fresh.key = RequestKey
              /\ result.total_principles = fresh.total_principles
              /\ result.max_depth_reached = fresh.max_depth_reached

(* a cached result whose principles are spread over the root and a child *)
C6_Witness ==
    /\ result.kind = "ok"
    /\ result.cached
    /\ Len(result.tree.principles) > 0
    /\ \E k \in DOMAIN result.tree.children : Len(result.tree.children[k].principles) > 0

(* the subtree entry of an earlier successful analyze(term, d, r) is      *)
(* still in the store and not older than the TTL                           *)
SubtreeLive(term, max_depth, max_results) ==
    LET key == GenerateAnalysisCacheKey(term, max_depth, max_results)
    IN  /\ fresh.kind = "ok"
        /\ fresh.key = key
        /\ key \in DOMAIN analysis_nodes
        /\ now - analysis_nodes[key].timestamp <= principle_ttl

(* C7: an analyze with the parameters of an earlier successful analyze,   *)
(* made while the subtree entry is neither expired nor evicted, returns   *)
(* the stored tree at once: no provider call, no recursive call.          *)
C7_RepeatServedFromCache ==
    [][ (/\ stats'.requests = stats.requests + 1
         /\ SubtreeLive(req'.term, req'.max_depth, req'.max_results))
        => (/\ result'.kind = "ok"
            /\ result'.cached
            /\ result'.tree = fresh.tree
            /\ phase' = "idle"
            /\ stack' = <<>>
            /\ stats'.fetches = 0
            /\ stats'.calls = 0) ]_vars

(* a repeated request answered from the cache with a tree that has children *)
C7_Witness ==
    /\ phase = "idle"
    /\ stats.requests = 2
    /\ result.kind = "ok"
    /\ result.cached
    /\ DOMAIN result.tree.children # {}

(* C8: a write to a store holding max_entries entries removes exactly one *)
(* entry, one with the oldest creation time, and then inserts.             *)
C8_WriteEvictsOldest ==
    (last.op = "put" /\ Cardinality(DOMAIN last.before) = max_entries) =>
        \E k \in DOMAIN last.before :
            /\ \A j \in DOMAIN last.before :
                  last.before[k].timestamp <= last.before[j].timestamp
            /\ StoreOf(last.store) =
                  Insert(Remove(last.before, k), last.key,
                         [data |-> last.data, timestamp |-> last.at, access_count |-> 1])

(* C9: a read of an entry older than the store's TTL is a miss and leaves *)
(* the store without the key; an entry aged exactly the TTL is a hit.     *)
C9_ExpiredReadMisses ==
    (last.op = "get" /\ last.key \in DOMAIN last.before) =>
        LET e == last.before[last.key]
            age == last.at - e.timestamp
        IN  /\ age > TtlOf(last.store) =>
                  (~last.hit /\ last.key \notin DOMAIN StoreOf(last.store))
            /\ age = TtlOf(last.store) =>
                  (last.hit /\ last.out = e.data
                     /\ last.key \in DOMAIN StoreOf(last.store))

(* an entry older than its TTL was read *)
C9_Witness ==
    /\ last.op = "get"
    /\ last.key \in DOMAIN last.before
    /\ last.at - last.before[last.key].timestamp > TtlOf(last.store)
    /\ ~last.hit

(* C10: each of the three stores holds at most max_entries entries. *)
C10_StoresBounded ==
    \A n \in Stores : Cardinality(DOMAIN StoreOf(n)) <= max_entries

(* C11: after a sweep with no concurrent writer, no store holds an entry  *)
(* older than the store's TTL, and every entry that was not older than    *)
(* the TTL when the sweep ran is still there, unchanged.                   *)
C11_SweepRemovesExactlyExpired ==
    last.op = "sweep" =>
        \A n \in Stores :
            /\ DOMAIN StoreOf(n) =
                  {k \in DOMAIN last.before[n] :
                      last.at - last.before[n][k].timestamp <= TtlOf(n)}
            /\ \A k \in DOMAIN StoreOf(n) : StoreOf(n)[k] = last.before[n][k]

(* a sweep found an expired and a live entry in one store *)
C11_Witness ==
    /\ last.op = "sweep"
    /\ \E n \in Stores : \E k \in DOMAIN last.before[n], j \in DOMAIN last.before[n] :
          /\ last.at - last.before[n][k].timestamp > TtlOf(n)
          /\ last.at - last.before[n][j].timestamp <= TtlOf(n)
          /\ j \in DOMAIN StoreOf(n)
          /\ k \notin DOMAIN StoreOf(n)

(* the call that has just returned was made by a parent call, which is    *)
(* now the innermost one                                                   *)
ReturnedToParent == phase = "running" /\ ret.kind # "none"

C14_RootFailureSurfaced ==
    [][ (/\ phase = "running"
         /\ Len(stack) = 1
         /\ stack[1].pc = "fetch"
         /\ ret'.kind # "none"
         /\ ret'.how = "error")
        => (/\ phase' = "idle"
            /\ result'.kind = "err"
            /\ analysis_nodes' = analysis_nodes
            /\ RequestKey \notin DOMAIN analysis_nodes') ]_vars

(* the request ended in a failure after one provider call *)
C14_Witness ==
    /\ phase = "idle"
    /\ result.kind = "err"
    /\ ret.kind = "err"
    /\ ret.depth = 0
    /\ stats.fetches = 1

(* C15: a term for which the provider has no page returns Ok with an      *)
(* empty leaf (the term, no principles, no children, the current depth),  *)
(* at the root, where it is the result, and below, where it becomes a     *)
(* child of its parent.                                                     *)
C15_MissingPageIsLeaf ==
    (ret.kind # "none" /\ ret.how = "missing") =>
        /\ ret.kind = "ok"
        /\ ret.node = [term |-> ret.term, principles |-> <<>>,
                       children |-> EmptyStore, depth |-> ret.depth]
        /\ IF ret.depth = 0
           THEN phase = "idle" /\ result.kind = "ok" /\ result.tree = ret.node
           ELSE /\ phase = "running"
                /\ ret.term \in DOMAIN Top.children
                /\ Top.children[ret.term] = ret.node

(* a concept below the root had no page and became a child *)
C15_Witness ==
    /\ ReturnedToParent
    /\ ret.how = "missing"
    /\ ret.depth = 1
    /\ ret.term \in DOMAIN Top.children

(* C16: every node at the requested max_depth is an empty leaf, and a     *)
(* request with max_depth 0 returns the single node of depth 0.            *)
C16_DepthLimitIsLeaf ==
    result.kind = "ok" =>
        /\ \A q \in NodePaths(result.tree) :
              NodeAt(result.tree, q).depth = req.max_depth =>
                  /\ NodeAt(result.tree, q).principles = <<>>
                  /\ DOMAIN NodeAt(result.tree, q).children = {}
        /\ req.max_depth = 0 =>
              result.tree = [term |-> req.term, principles |-> <<>>,
                             children |-> EmptyStore, depth |-> 0]

(* a tree with a leaf at max_depth 2 whose term has a page with links *)
C16_Witness ==
    /\ result.kind = "ok"
    /\ ~result.cached
    /\ req.max_depth = 2
    /\ \E q \in NodePaths(result.tree) :
          /\ Len(q) = 2
          /\ q[2] \in DOMAIN wikipedia_pages
          /\ wikipedia_pages[q[2]].data.links # {}

(* C20: whenever a node tests a related concept for expansion, the        *)
(* path-visited set is the set of terms of the calls on the stack.        *)
C20_VisitedIsStack ==
    (phase = "running" /\ Top.pc = "loop" /\ Top.concepts # <<>>) =>
        visited = StackTerms

(* ---------------------------------------------------------------------- *)
(* The classifier: EngineeringAnalyzer::analyze_page (analyzer.rs)         *)
(*                                                                          *)
(* A sentence is described by what the patterns find in it: ind, the      *)
(* number of principle-indicator matches; cat, the number of matches of   *)
(* the patterns of its category (0: no category pattern matches, the      *)
(* category is Other); long, its length is between 50 and 300; math, it   *)
(* holds a mathematical expression; words, its whitespace tokens.         *)
(* Confidences are in hundredths.                                          *)
(* ---------------------------------------------------------------------- *)
MaxSentences == 3           \* sentences of a page
MaxIndicators == 3          \* indicator matches in a sentence
MaxCategoryMatches == 2     \* category-pattern matches in a sentence

IndicatorWeight == 20       \* 0.2
CategoryWeight == 15        \* 0.15
LengthBonus == 10           \* 0.1
MathBonus == 20             \* 0.2
OtherConfidence == 30       \* 0.3
MinConfidence == 30         \* 0.3
ConfidenceCap == 100        \* 1.0
MaxUnique == 10

CommonWords == {"w1", "w2", "w3", "w4"}
WordSets == {CommonWords, CommonWords \cup {"w5"}, CommonWords \cup {"w5", "w6"}}

Sentences ==
    [ind : 0..MaxIndicators, cat : 0..MaxCategoryMatches,
     long : BOOLEAN, math : BOOLEAN, words : WordSets]

(* the sentences used in pages of several sentences *)
RankedSentences ==
    {t \in Sentences : t.long /\ ~t.math /\ t.cat = 1 /\ t.ind \in 1..MaxIndicators}

SeqsOf(S, n) == UNION {[1..k -> S] : k \in 0..n}

ClassifyInputs == SeqsOf(Sentences, 1) \cup SeqsOf(RankedSentences, MaxSentences)

(* a score that is not capped at 1.0 *)
CalculateConfidenceUncapped(sentence) ==
    IF sentence.cat = 0 THEN OtherConfidence
    ELSE sentence.ind * IndicatorWeight + sentence.cat * CategoryWeight
           + (IF sentence.long THEN LengthBonus ELSE 0)
           + (IF sentence.math THEN MathBonus ELSE 0)

(* calculate_confidence *)
calculate_confidence(sentence) ==
    IF sentence.cat = 0 THEN OtherConfidence
    ELSE Min(sentence.ind * IndicatorWeight + sentence.cat * CategoryWeight
               + (IF sentence.long THEN LengthBonus ELSE 0)
               + (IF sentence.math THEN MathBonus ELSE 0),
             ConfidenceCap)

(* extract_principle_from_sentence: None, or the principle *)
extract_principle_from_sentence(sentence) ==
    IF sentence.ind = 0 THEN None
    ELSE IF calculate_confidence(sentence) < MinConfidence THEN None
    ELSE [description |-> sentence.words,
          category |-> IF sentence.cat = 0 THEN "Other" ELSE "Category",
          confidence |-> calculate_confidence(sentence)]

(* analyze_page, lines 105-111: the principles of the sentences, in order *)
RECURSIVE ExtractAll(_)
ExtractAll(sentences) ==
    IF sentences = <<>> THEN <<>>
    ELSE LET e == extract_principle_from_sentence(Head(sentences))
         IN  IF e = None THEN ExtractAll(Tail(sentences))
             ELSE <<e>> \o ExtractAll(Tail(sentences))

(* a comparison that finds only identical token sets similar *)
SimilarOnlyIfEqual(text1, text2) == text1 = text2

(* similarity_score(..) > 0.8 on the whitespace tokens (line 289); the    *)
(* token counts are small enough for f32 to hold the quotient's order     *)
Similar(text1, text2) ==
    LET intersection == Cardinality(text1 \cap text2)
        union == Cardinality(text1 \cup text2)
    IN  union # 0 /\ 5 * intersection > 4 * union

(* sort_by confidence, highest first (line 283): the orders a sort can    *)
(* give, principles of equal confidence in either order                   *)
Rankings(ps) ==
    {[i \in 1..Len(ps) |-> ps[f[i]]] :
        f \in {g \in [1..Len(ps) -> 1..Len(ps)] :
                 /\ \A i, j \in 1..Len(ps) : i # j => g[i] # g[j]
                 /\ \A i \in 1..(Len(ps) - 1) :
                       ps[g[i]].confidence >= ps[g[i + 1]].confidence}}

(* lines 286-295: keep a principle unless it is similar to a kept one *)
RECURSIVE Unique(_, _)
Unique(ranked, kept) ==
    IF ranked = <<>> THEN kept
    ELSE LET p == Head(ranked)
             is_duplicate == \E i \in 1..Len(kept) :
                                 Similar(p.description, kept[i].description)
         IN  Unique(Tail(ranked), IF is_duplicate THEN kept ELSE Append(kept, p))

(* deduplicate_and_rank: the lists it can return *)
deduplicate_and_rank(ps) ==
    {Take(Unique(r, <<>>), MaxUnique) : r \in Rankings(ps)}

(* analyze_page *)
analyze_page(sentences) == deduplicate_and_rank(ExtractAll(sentences))

ClassifyInit ==
    /\ ServiceInit
    /\ input \in ClassifyInputs
    /\ output = None

Classify ==
    /\ output = None
    /\ \E r \in analyze_page(input) : output' = [principles |-> r]
    /\ UNCHANGED <<cacheVars, apiVars, engineVars, input, tasks>>

SpecClassify == ClassifyInit /\ [][Classify]_vars

(* C17: every principle returned by analyze_page has a confidence between *)
(* 0.3 and 1.                                                               *)
C17_ConfidenceInRange ==
    output # None =>
        \A i \in 1..Len(output.principles) :
            /\ output.principles[i].confidence >= 30
            /\ output.principles[i].confidence <= 100

(* a sentence whose matches add up to more than 1.0 was classified *)
C17_Witness ==
    /\ output # None
    /\ Len(input) = 1
    /\ input[1].cat > 0
    /\ input[1].ind * 20 + input[1].cat * 15
         + (IF input[1].long THEN 10 ELSE 0) + (IF input[1].math THEN 20 ELSE 0) > 100
    /\ Len(output.principles) = 1
    /\ output.principles[1].confidence = 100

(* C18: no two principles returned by analyze_page have descriptions      *)
(* whose token Jaccard similarity is above 0.8.                            *)
C18_NoSimilarPair ==
    output # None =>
        \A i, j \in 1..Len(output.principles) :
            i # j =>
                LET a == output.principles[i].description
                    b == output.principles[j].description
                IN  ~(10 * Cardinality(a \cap b) > 8 * Cardinality(a \cup b))

(* of three sentences, two of similarity 5/6, one was dropped and two of  *)
(* similarity 4/5 were kept                                                 *)
C18_Witness ==
    /\ output # None
    /\ Len(input) = 3
    /\ {input[i].words : i \in 1..3} = WordSets
    /\ Len(output.principles) = 2

(* ---------------------------------------------------------------------- *)
(* The decomposer: SemanticAnalyzer::decompose_concept                     *)
(* (semantic_analyzer.rs).  Importances and confidences are in            *)
(* thousandths.  The description of a component, a text made of its name  *)
(* and category, is left out of the component records.                     *)
(* ---------------------------------------------------------------------- *)
MaxDecomposeDepth == 2      \* largest max_depth passed to decompose_concept

(* build_knowledge_base *)
concept_hierarchies ==
    ("uav" :> <<"propulsion system", "flight controller", "power system",
                "communication system", "navigation system", "structural frame",
                "payload system">>)
    @@ ("propulsion system" :> <<"motor", "propeller", "electronic speed controller",
                                  "motor mount">>)
    @@ ("power system" :> <<"battery", "power distribution board", "voltage regulator",
                             "charging system">>)
    @@ ("flight controller" :> <<"microprocessor", "inertial measurement unit",
                                  "gyroscope", "accelerometer", "barometer">>)
    @@ ("engine" :> <<"combustion chamber", "piston", "crankshaft", "valve system",
                       "fuel injection system", "cooling system", "ignition system">>)
    @@ ("bridge" :> <<"foundation", "deck", "superstructure", "support cables",
                       "anchoring system">>)

component_relationships ==
    "uav" :> << [component |-> "motor", relation_type |-> "PartOf", confidence |-> 950],
                [component |-> "battery", relation_type |-> "Requires", confidence |-> 980],
                [component |-> "propeller", relation_type |-> "PartOf", confidence |-> 900],
                [component |-> "flight controller", relation_type |-> "Controls",
                 confidence |-> 920] >>

category_mappings ==
    ("motor" :> "Mechanical") @@ ("battery" :> "Electrical")
    @@ ("propeller" :> "Mechanical") @@ ("flight controller" :> "System")
    @@ ("frame" :> "Structural")

synonyms ==
    ("uav" :> {"drone", "unmanned aerial vehicle", "quadcopter"})
    @@ ("motor" :> {"engine", "actuator"})
    @@ ("battery" :> {"power source", "energy storage"})

critical_components == {"motor", "battery", "controller", "processor", "engine", "frame"}

BaseImportance == 500       \* 0.5
RequiresBoost == 300        \* 0.3
ControlsBoost == 250        \* 0.25
PartOfBoost == 200          \* 0.2
OtherRelationBoost == 100   \* 0.1
CriticalBoost == 200        \* 0.2
ImportanceCap == 1000       \* 1.0
KnowledgeBaseConfidence == 950   \* 0.95

(* spellings with capital letters, and what to_lowercase makes of them *)
Lowercase ==
    ("UAV" :> "uav") @@ ("Drone" :> "drone") @@ ("Bridge" :> "bridge")
    @@ ("ENGINE" :> "engine") @@ ("Power System" :> "power system")
    @@ ("Placeholder" :> "placeholder")

to_lowercase(text) == IF text \in DOMAIN Lowercase THEN Lowercase[text] ELSE text

Range(q) == {q[i] : i \in 1..Len(q)}

ConceptNames ==
    DOMAIN concept_hierarchies
    \cup UNION {Range(concept_hierarchies[k]) : k \in DOMAIN concept_hierarchies}
    \cup DOMAIN synonyms \cup UNION {synonyms[k] : k \in DOMAIN synonyms}
    \cup DOMAIN Lowercase \cup {"turbine blade"}

DecomposeInputs == [concept : ConceptNames, max_depth : 0..MaxDecomposeDepth]

(* normalize_concept: the loop runs over a HashMap, so when several keys  *)
(* match any of them can be the one returned                               *)
normalize_concept(concept) ==
    LET concept_lower == to_lowercase(concept)
        matching == {key \in DOMAIN synonyms :
                        key = concept_lower \/ concept_lower \in synonyms[key]}
    IN  IF matching = {} THEN {concept_lower} ELSE matching

(* the relations of parent_concept that name the component, lines 456-467 *)
RECURSIVE RelationBoost(_, _)
RelationBoost(relations, component) ==
    IF relations = <<>> THEN 0
    ELSE LET relation == Head(relations)
         IN  (IF relation.component = component
              THEN (CASE relation.relation_type = "Requires" -> RequiresBoost
                      [] relation.relation_type = "Controls" -> ControlsBoost
                      [] relation.relation_type = "PartOf" -> PartOfBoost
                      [] OTHER -> OtherRelationBoost)
                   + (relation.confidence * 2) \div 10
              ELSE 0)
             + RelationBoost(Tail(relations), component)

(* calculate_component_importance *)
calculate_component_importance(component, parent_concept) ==
    Min(BaseImportance
          + (IF parent_concept \in DOMAIN component_relationships
             THEN RelationBoost(component_relationships[parent_concept], component)
             ELSE 0)
          + (IF component \in critical_components THEN CriticalBoost ELSE 0),
        ImportanceCap)

(* the stable sort of line 423: highest importance first, components of   *)
(* equal importance in the order they had                                  *)
RECURSIVE InsertByImportance(_, _)
InsertByImportance(sorted, c) ==
    IF sorted = <<>> THEN <<c>>
    ELSE IF Head(sorted).importance >= c.importance
         THEN <<Head(sorted)>> \o InsertByImportance(Tail(sorted), c)
         ELSE <<c>> \o sorted

RECURSIVE SortByImportance(_, _)
SortByImportance(components, sorted) ==
    IF components = <<>> THEN sorted
    ELSE SortByImportance(Tail(components), InsertByImportance(sorted, Head(components)))

(* extract_from_knowledge_base: None, or the components *)
extract_from_knowledge_base(concept) ==
    IF concept \notin DOMAIN concept_hierarchies THEN None
    ELSE LET sub_concepts == concept_hierarchies[concept]
             components ==
                 [i \in 1..Len(sub_concepts) |->
                     [name |-> sub_concepts[i],
                      category |-> IF sub_concepts[i] \in DOMAIN category_mappings
                                   THEN category_mappings[sub_concepts[i]]
                                   ELSE "System",
                      importance |-> calculate_component_importance(sub_concepts[i], concept),
                      sub_components |-> IF sub_concepts[i] \in DOMAIN concept_hierarchies
                                         THEN concept_hierarchies[sub_concepts[i]]
                                         ELSE <<>>]]
         IN  [components |-> SortByImportance(components, <<>>)]

(* extract_relationships *)
extract_relationships(concept) ==
    IF concept \in DOMAIN component_relationships
    THEN component_relationships[concept] ELSE <<>>

(* build_component_extractors: per extractor its category, its weight and *)
(* the names each of its two patterns matches.  A text is the sequence of *)
(* its words and phrases.                                                   *)
component_extractors ==
    << [category |-> "Mechanical", weight |-> 800,
        patterns |-> << {"motor", "engine", "gear", "bearing", "shaft", "piston",
                         "turbine", "pump", "compressor", "fan", "propeller"},
                        {"actuator", "servo", "stepper", "valve", "clutch", "brake",
                         "transmission", "coupling"} >>],
       [category |-> "Electrical", weight |-> 850,
        patterns |-> << {"battery", "capacitor", "resistor", "transistor", "diode",
                         "circuit", "sensor", "microcontroller"},
                        {"power supply", "transformer", "inverter", "converter",
                         "relay", "switch", "connector"} >>],
       [category |-> "Structural", weight |-> 750,
        patterns |-> << {"frame", "chassis", "beam", "column", "foundation", "support",
                         "bracket", "mount", "housing"},
                        {"panel", "plate", "shell", "casing", "structure", "framework",
                         "skeleton"} >>],
       [category |-> "System", weight |-> 900,
        patterns |-> << {"controller", "processor", "computer", "ECU",
                         "flight controller", "autopilot"},
                        {"sensor", "gyroscope", "accelerometer", "GPS", "IMU",
                         "barometer", "compass"} >>],
       [category |-> "Thermal", weight |-> 700,
        patterns |-> << {"radiator", "heat sink", "cooling fan", "thermal pad",
                         "heat exchanger"},
                        {"insulation", "thermal barrier", "coolant", "refrigeration"} >>] >>

(* the matches of one pattern in the text, in the order of the text, as    *)
(* the components lines 501-509 would push                                  *)
PatternMatches(extractor, j, text_lower) ==
    LET found == SelectSeq(text_lower, LAMBDA w : w \in extractor.patterns[j])
    IN  [i \in 1..Len(found) |->
            [name |-> found[i], category |-> extractor.category,
             importance |-> (extractor.weight * 8) \div 10,
             sub_components |-> <<>>]]

(* the matches of all extractors, in the order of the loops of 494-496     *)
RECURSIVE ExtractorMatches(_, _)
ExtractorMatches(i, text_lower) ==
    IF i > Len(component_extractors) THEN <<>>
    ELSE PatternMatches(component_extractors[i], 1, text_lower)
         \o PatternMatches(component_extractors[i], 2, text_lower)
         \o ExtractorMatches(i + 1, text_lower)

(* line 499: a match is pushed only if no component has its name yet       *)
RECURSIVE AvoidDuplicates(_, _)
AvoidDuplicates(components, matches) ==
    IF matches = <<>> THEN components
    ELSE AvoidDuplicates(
             IF \E i \in 1..Len(components) : components[i].name = Head(matches).name
             THEN components ELSE Append(components, Head(matches)),
             Tail(matches))

RECURSIVE SumImportance(_)
SumImportance(components) ==
    IF components = <<>> THEN 0
    ELSE Head(components).importance + SumImportance(Tail(components))

MaxComponents == 10

(* extract_components_from_text, for a text with no relationship phrase    *)
extract_components_from_text(text, max_depth) ==
    LET text_lower == [i \in 1..Len(text) |-> to_lowercase(text[i])]
        found == AvoidDuplicates(<<>>, ExtractorMatches(1, text_lower))
        components == Take(SortByImportance(found, <<>>), MaxComponents)
    IN  [concept |-> "extracted_concept",
         components |-> components,
         relationships |-> <<>>,
         confidence |-> IF components = <<>> THEN 0
                        ELSE SumImportance(components) \div Len(components)]

(* fetch_concept_content: the same text for every concept                  *)
fetch_concept_content(concept) ==
    <<"Placeholder", "content", "for", "concept", "analysis">>

(* what decompose_concept returns for a concept the knowledge base does    *)
(* not have: the extraction from the text of fetch_concept_content         *)
ExtractedFromPlaceholder ==
    extract_components_from_text(fetch_concept_content(""), 0)

(* decompose_concept: the decompositions it can return; max_depth is read *)
(* on neither path                                                          *)
decompose_concept(concept, max_depth) ==
    {IF extract_from_knowledge_base(normalized_concept) # None
     THEN [concept |-> concept,
           components |-> extract_from_knowledge_base(normalized_concept).components,
           relationships |-> extract_relationships(normalized_concept),
           confidence |-> KnowledgeBaseConfidence]
     ELSE ExtractedFromPlaceholder :
       normalized_concept \in normalize_concept(concept)}

DecomposeInit ==
    /\ ServiceInit
    /\ input \in DecomposeInputs
    /\ output = None

Decompose ==
    /\ output = None
    /\ \E d \in decompose_concept(input.concept, input.max_depth) :
          output' = [decomposition |-> d]
    /\ UNCHANGED <<cacheVars, apiVars, engineVars, input, tasks>>

SpecDecompose == DecomposeInit /\ [][Decompose]_vars

(* C19: decompose("uav", 2) returns components that include motor, of     *)
(* category Mechanical, and battery, of category Electrical, each of      *)
(* importance above 0.5, and a Requires relation for battery.              *)
C19_UavHasMotorAndBattery ==
    (output # None /\ input.concept = "uav" /\ input.max_depth = 2) =>
        LET d == output.decomposition
        IN  /\ \E i \in 1..Len(d.components) :
                  /\ d.components[i].name = "motor"
                  /\ d.components[i].category = "Mechanical"
                  /\ d.components[i].importance > 500
            /\ \E i \in 1..Len(d.components) :
                  /\ d.components[i].name = "battery"
                  /\ d.components[i].category = "Electrical"
                  /\ d.components[i].importance > 500
            /\ \E i \in 1..Len(d.relationships) :
                  /\ d.relationships[i].component = "battery"
                  /\ d.relationships[i].relation_type = "Requires"

(* ---------------------------------------------------------------------- *)
(* Further properties of the cache and of the engine                       *)
(* ---------------------------------------------------------------------- *)

(* C22: a read that hits increments the entry's access_count by one and   *)
(* changes nothing else: not the entry's value or creation time, not the  *)
(* other entries of the store, not the other two stores.                   *)
C22_HitOnlyCounts ==
    [][ \A name \in Stores, key \in CacheKeys :
          (/\ ops' = ops + 1
           /\ last'.op = "get"
           /\ last'.hit
           /\ last'.store = name
           /\ last'.key = key) =>
              /\ \A n \in Stores \ {name} : StoreOf(n)' = StoreOf(n)
              /\ key \in DOMAIN StoreOf(name)
              /\ DOMAIN StoreOf(name)' = DOMAIN StoreOf(name)
              /\ \A k \in DOMAIN StoreOf(name) :
                    StoreOf(name)'[k] =
                        IF k = key
                        THEN [data |-> StoreOf(name)[k].data,
                              timestamp |-> StoreOf(name)[k].timestamp,
                              access_count |-> StoreOf(name)[k].access_count + 1]
                        ELSE StoreOf(name)[k]
              /\ last'.out = StoreOf(name)[key].data ]_vars

(* an entry created at an earlier instant was read beside another entry *)
C22_Witness ==
    /\ last.op = "get"
    /\ last.hit
    /\ last.before[last.key].timestamp < last.at
    /\ Cardinality(DOMAIN last.before) = 2

(* C28: writing a key that is present in a store holding max_entries      *)
(* entries replaces that key's entry and leaves the other entries alone.  *)
C28_OverwriteKeepsOthers ==
    (/\ last.op = "put"
     /\ last.key \in DOMAIN last.before
     /\ Cardinality(DOMAIN last.before) = max_entries) =>
        /\ DOMAIN StoreOf(last.store) = DOMAIN last.before
        /\ \A k \in DOMAIN last.before :
              StoreOf(last.store)[k] =
                  IF k = last.key
                  THEN [data |-> last.data, timestamp |-> last.at, access_count |-> 1]
                  ELSE last.before[k]

C30_CallsStartUnvisited ==
    /\ (phase = "running" /\ Top.pc = "enter") =>
          /\ Top.term \notin visited
          /\ Top.depth <= req.max_depth
          /\ Len(stack) > 1 => Top.depth = stack[Len(stack) - 1].depth + 1
    /\ (ret.kind # "none" /\ ret.how = "base") =>
          (ret.depth >= req.max_depth /\ ret.term \notin ret.saved)

(* a call below the root is about to start while the visited set still   *)
(* holds the term of a call that has returned                              *)
C30_Witness ==
    /\ phase = "running"
    /\ Top.pc = "enter"
    /\ Len(stack) = 2
    /\ visited \ StackTerms # {}

(* ---------------------------------------------------------------------- *)
(* Concurrent callers of one store                                         *)
(*                                                                          *)
(* The stores are DashMaps shared through an Arc; every method takes       *)
(* &self and the runtime is multi-threaded, so calls of different tasks    *)
(* interleave between the map operations each one makes.  One step below   *)
(* is one map operation (len, iter, get_mut, remove, insert); the page     *)
(* store stands for any of the three, which run the same code.             *)
(* ---------------------------------------------------------------------- *)
MaxTaskOps == 3

SetTask(t, rec) == tasks' = [tasks EXCEPT ![t] = rec]

(* cache_wikipedia_page, first statement: ensure_capacity reads len()      *)
WriteEnsureCapacity(t, key, data) ==
    /\ tasks[t].pc = "idle"
    /\ ops < MaxTaskOps
    /\ ops' = ops + 1
    /\ SetTask(t, [pc |-> IF Cardinality(DOMAIN wikipedia_pages) >= max_entries
                          THEN "evict_oldest" ELSE "insert",
                   key |-> key, data |-> data, pending |-> {}])
    /\ UNCHANGED <<cacheVars, last, engineVars, pureVars>>

(* evict_oldest, the scan: the key of the least timestamp below now        *)
WriteEvictScan(t) ==
    /\ tasks[t].pc = "evict_oldest"
    /\ LET older == {k \in DOMAIN wikipedia_pages : wikipedia_pages[k].timestamp < now}
           oldest == {k \in older : \A j \in older :
                         wikipedia_pages[k].timestamp <= wikipedia_pages[j].timestamp}
       IN  IF older = {}
           THEN SetTask(t, [tasks[t] EXCEPT !.pc = "insert"])
           ELSE \E k \in oldest :
                   SetTask(t, [tasks[t] EXCEPT !.pc = "evict_remove", !.pending = {k}])
    /\ UNCHANGED <<cacheVars, apiVars, engineVars, pureVars>>

(* evict_oldest, the removal of the key the scan chose                     *)
WriteEvictRemove(t) ==
    /\ tasks[t].pc = "evict_remove"
    /\ wikipedia_pages' = [k \in DOMAIN wikipedia_pages \ tasks[t].pending |-> wikipedia_pages[k]]
    /\ SetTask(t, [tasks[t] EXCEPT !.pc = "insert", !.pending = {}])
    /\ UNCHANGED <<principles, analysis_nodes, now, apiVars, engineVars, pureVars>>

(* cache_wikipedia_page, second statement: insert(title, CacheEntry::new)  *)
WriteInsert(t) ==
    /\ tasks[t].pc = "insert"
    /\ wikipedia_pages' = Insert(wikipedia_pages, tasks[t].key, NewEntry(tasks[t].data))
    /\ SetTask(t, IdleTask)
    /\ UNCHANGED <<principles, analysis_nodes, now, apiVars, engineVars, pureVars>>

(* get_wikipedia_page up to drop(entry): the entry is tested, and counted  *)
(* when fresh, under the guard get_mut returns                             *)
ReadGetMut(t, key) ==
    /\ tasks[t].pc = "idle"
    /\ ops < MaxTaskOps
    /\ ops' = ops + 1
    /\ IF key \in DOMAIN wikipedia_pages
       THEN IF ~IsExpired(wikipedia_pages[key], page_ttl)
            THEN /\ wikipedia_pages' = [wikipedia_pages EXCEPT ![key] = Access(@)]
                 /\ UNCHANGED tasks
            ELSE /\ SetTask(t, [pc |-> "lazy_remove", key |-> key, data |-> "",
                                pending |-> {}])
                 /\ UNCHANGED wikipedia_pages
       ELSE UNCHANGED <<wikipedia_pages, tasks>>
    /\ UNCHANGED <<principles, analysis_nodes, now, last, engineVars, pureVars>>

(* get_wikipedia_page, the else branch after the guard is dropped          *)
ReadRemove(t) ==
    /\ tasks[t].pc = "lazy_remove"
    /\ wikipedia_pages' = Remove(wikipedia_pages, tasks[t].key)
    /\ SetTask(t, IdleTask)
    /\ UNCHANGED <<principles, analysis_nodes, now, apiVars, engineVars, pureVars>>

(* cleanup_expired_entries, first loop: collect the expired keys           *)
SweepCollect(t) ==
    /\ tasks[t].pc = "idle"
    /\ ops < MaxTaskOps
    /\ ops' = ops + 1
    /\ LET expired_keys == {k \in DOMAIN wikipedia_pages :
                               IsExpired(wikipedia_pages[k], page_ttl)}
       IN  SetTask(t, IF expired_keys = {} THEN IdleTask
                      ELSE [pc |-> "sweep_remove", key |-> "", data |-> "",
                            pending |-> expired_keys])
    /\ UNCHANGED <<cacheVars, last, engineVars, pureVars>>

(* cleanup_expired_entries, second loop: one remove per collected key      *)
SweepRemove(t) ==
    /\ tasks[t].pc = "sweep_remove"
    /\ \E k \in tasks[t].pending :
          /\ wikipedia_pages' = Remove(wikipedia_pages, k)
          /\ SetTask(t, IF tasks[t].pending = {k} THEN IdleTask
                        ELSE [tasks[t] EXCEPT !.pending = @ \ {k}])
    /\ UNCHANGED <<principles, analysis_nodes, now, apiVars, engineVars, pureVars>>

ConcNext ==
    \/ \E t \in Tasks, k \in CacheKeys, d \in CacheVals : WriteEnsureCapacity(t, k, d)
    \/ \E t \in Tasks : WriteEvictScan(t)
    \/ \E t \in Tasks : WriteEvictRemove(t)
    \/ \E t \in Tasks : WriteInsert(t)
    \/ \E t \in Tasks, k \in CacheKeys : ReadGetMut(t, k)
    \/ \E t \in Tasks : ReadRemove(t)
    \/ \E t \in Tasks : SweepCollect(t)
    \/ \E t \in Tasks : SweepRemove(t)
    \/ Tick

SpecConc == CacheInit /\ [][ConcNext]_vars

(* C21: under any interleaving of concurrent writers to one store, the    *)
(* store never holds more than max_entries entries.                        *)
C21_ConcurrentWritesBounded ==
    Cardinality(DOMAIN wikipedia_pages) <= max_entries

(* C27: the removal made by a read that found its entry expired, and      *)
(* each removal made by the sweep, deletes only an entry that is expired  *)
(* at the moment it is removed.                                            *)
C27_RemovesOnlyExpired ==
    [][ \A t \in Tasks :
          (tasks[t].pc \in {"lazy_remove", "sweep_remove"} /\ tasks'[t] # tasks[t])
          => \A k \in DOMAIN wikipedia_pages \ DOMAIN wikipedia_pages' :
                IsExpired(wikipedia_pages[k], page_ttl) ]_vars

(* ---------------------------------------------------------------------- *)
(* The classifier's category assignment                                    *)
(* ---------------------------------------------------------------------- *)
MaxScore == 2

(* the categories vector of categorize_text, in its order                  *)
Categories == <<"Structural", "Mechanical", "Electrical", "Thermal", "Chemical",
                "Material", "System", "Process", "Design">>

CategoryNames == {Categories[i] : i \in 1..Len(Categories)}

(* a text, as the number of matches its patterns find for each category    *)
CategorizeInputs == [scores : [CategoryNames -> 0..MaxScore]]

(* categorize_text: the categories with a positive score go into a         *)
(* HashMap; max_by_key over the map's iterator returns the last maximum    *)
(* in the map's iteration order, which the hasher's random seed fixes, so  *)
(* any category of the highest score can be the result.                    *)
categorize_text(scores) ==
    LET positive == {c \in CategoryNames : scores[c] > 0}
    IN  IF positive = {} THEN {"Other"}
        ELSE {c \in positive : \A d \in positive : scores[d] <= scores[c]}

CategorizeInit ==
    /\ ServiceInit
    /\ input \in CategorizeInputs
    /\ output = None

Categorize ==
    /\ output = None
    /\ \E c \in categorize_text(input.scores) : output' = [category |-> c]
    /\ UNCHANGED <<cacheVars, apiVars, engineVars, input, tasks>>

SpecCategorize == CategorizeInit /\ [][Categorize]_vars

(* the first category, in the scan order, of the highest positive score   *)
FirstInScanOrder(scores) ==
    LET best == {i \in 1..Len(Categories) :
                    /\ scores[Categories[i]] > 0
                    /\ \A j \in 1..Len(Categories) :
                          scores[Categories[j]] <= scores[Categories[i]]}
    IN  IF best = {} THEN "Other"
        ELSE Categories[CHOOSE i \in best : \A j \in best : i <= j]

(* C23: the category of a text is a function of the text: among the       *)
(* categories of the highest score, it is the first in the order          *)
(* Structural, Mechanical, Electrical, Thermal, Chemical, Material,       *)
(* System, Process, Design.                                                *)
C23_TieBrokenByScanOrder ==
    output # None => output.category = FirstInScanOrder(input.scores)

(* ---------------------------------------------------------------------- *)
(* The merge of the decomposer's and the classifier's principles           *)
(* ---------------------------------------------------------------------- *)
MaxSemantic == 7

(* A principle, as far as the merge reads it: where it comes from, the    *)
(* whitespace-separated lowercased tokens of its title and description,    *)
(* its related terms and its confidence in hundredths.                     *)
Principle(origin, title, description, related_terms, confidence) ==
    [origin |-> origin, title |-> title, description |-> description,
     related_terms |-> related_terms, confidence |-> confidence]

(* principles the decomposer can return: decomposition_to_principles       *)
SemanticPool ==
    { Principle("semantic", {"motor", "mechanism", "rotor", "drive"},
                {"converts", "electrical", "energy"}, <<"rotor">>, 80),
      Principle("semantic", {"battery", "circuit", "principle"},
                {"stores", "energy"}, <<>>, 50) }

(* principles the classifier can return: extract_principle_from_sentence;  *)
(* their related terms come out of a HashSet, so they do not repeat        *)
RegexPool ==
    { Principle("regex", {"motor", "mechanism", "rotor"},
                {"torque", "law"}, <<>>, 90),
      Principle("regex", {"motor", "mechanism"},
                {"basic", "gear", "rule"}, <<"rotor">>, 70),
      Principle("regex", {"fundamental", "principle"},
                {"stores", "energy", "safely"}, <<>>, 60),
      Principle("regex", {"key", "formula"},
                {"heat", "equation"}, <<"rotor", "stator">>, 40),
      Principle("regex", {"essential", "effect"},
                {"converts", "electrical", "energy", "efficiently"}, <<>>, 30) }

ByConfidence(q) == \A i, j \in 1..Len(q) : i < j => q[i].confidence >= q[j].confidence

(* the decomposer's list is any list over its pool, sorted; the            *)
(* classifier's list has no repeated entry, is sorted, and holds no two    *)
(* entries deduplicate_and_rank finds similar                              *)
MergeInputs ==
    [semantic : {q \in SeqsOf(SemanticPool, MaxSemantic) : ByConfidence(q)},
     regex : {q \in UNION {InjSeqs(RegexPool, n) : n \in 0..Cardinality(RegexPool)} :
                 ByConfidence(q)}]

(* text_similarity, as the pair intersection, union of the token sets      *)
text_similarity(words1, words2) ==
    [intersection |-> Cardinality(words1 \cap words2),
     union |-> Cardinality(words1 \cup words2)]

(* a duplicate test that compares titles only *)
PrinciplesSimilarByTitle(principle1, principle2) ==
    LET t == text_similarity(principle1.title, principle2.title)
    IN  t.union # 0 /\ 10 * t.intersection > 7 * t.union

(* principles_similar *)
principles_similar(principle1, principle2) ==
    LET t == text_similarity(principle1.title, principle2.title)
        d == text_similarity(principle1.description, principle2.description)
        common_terms == Cardinality({i \in 1..Len(principle1.related_terms) :
                            principle1.related_terms[i] \in Range(principle2.related_terms)})
        total_terms == Len(principle1.related_terms) + Len(principle2.related_terms)
    IN  \/ (t.union # 0 /\ 10 * t.intersection > 7 * t.union)
        \/ (d.union # 0 /\ 10 * d.intersection > 6 * d.union)
        \/ (total_terms > 0 /\ 2 * common_terms > total_terms)

(* the loop of get_or_analyze_principles over the classifier's principles  *)
RECURSIVE AddRegexPrinciples(_, _)
AddRegexPrinciples(combined_principles, regex_principles) ==
    IF regex_principles = <<>> THEN combined_principles
    ELSE LET regex_principle == Head(regex_principles)
             is_duplicate == \E i \in 1..Len(combined_principles) :
                                 principles_similar(regex_principle, combined_principles[i])
         IN  AddRegexPrinciples(IF is_duplicate THEN combined_principles
                                ELSE Append(combined_principles, regex_principle),
                                Tail(regex_principles))

(* sort_by on the confidence, descending; the sort is stable               *)
InsertByConfidence(sorted, p) ==
    LET before == Cardinality({i \in 1..Len(sorted) : sorted[i].confidence >= p.confidence})
    IN  SubSeq(sorted, 1, before) \o <<p>> \o SubSeq(sorted, before + 1, Len(sorted))

RECURSIVE SortByConfidence(_)
SortByConfidence(q) ==
    IF q = <<>> THEN <<>>
    ELSE InsertByConfidence(SortByConfidence(SubSeq(q, 1, Len(q) - 1)), q[Len(q)])

(* get_or_analyze_principles, from the two analysers' results on           *)
MergePrinciples(semantic_principles, regex_principles) ==
    Take(SortByConfidence(AddRegexPrinciples(semantic_principles, regex_principles)),
         MaxPrinciples)

MergeInit ==
    /\ ServiceInit
    /\ input \in MergeInputs
    /\ output = None

Merge ==
    /\ output = None
    /\ output' = [merged |-> MergePrinciples(input.semantic, input.regex)]
    /\ UNCHANGED <<cacheVars, apiVars, engineVars, input, tasks>>

SpecMerge == MergeInit /\ [][Merge]_vars

(* the share of common tokens of two token sets exceeds num/den            *)
JaccardAbove(a, b, num, den) ==
    a \cup b # {} /\ den * Cardinality(a \cap b) > num * Cardinality(a \cup b)

(* the classifier principle c is a duplicate of the decomposer principle d *)
DuplicateOf(c, d) ==
    \/ JaccardAbove(c.title, d.title, 7, 10)
    \/ JaccardAbove(c.description, d.description, 6, 10)
    \/ LET shared == Cardinality({i \in 1..Len(c.related_terms) :
                         \E j \in 1..Len(d.related_terms) :
                             c.related_terms[i] = d.related_terms[j]})
           all == Len(c.related_terms) + Len(d.related_terms)
       IN  all > 0 /\ 2 * shared > all

(* C24: the merged list of a page holds no classifier principle that is   *)
(* a duplicate of one of the decomposer's principles, is ordered by       *)
(* confidence descending and has at most 8 entries.                        *)
C24_MergedNoDuplicates ==
    output # None =>
        /\ \A i \in 1..Len(output.merged) :
              output.merged[i].origin = "regex" =>
                  \A j \in 1..Len(input.semantic) :
                      ~DuplicateOf(output.merged[i], input.semantic[j])
        /\ \A i, j \in 1..Len(output.merged) :
              i < j => output.merged[i].confidence >= output.merged[j].confidence
        /\ Len(output.merged) <= 8

(* a merge that dropped a classifier principle for its description, kept  *)
(* another one, and cut the list                                           *)
C24_Witness ==
    /\ output # None
    /\ Len(output.merged) = 8
    /\ \E i \in 1..Len(output.merged) : output.merged[i].origin = "regex"
    /\ \E i \in 1..Len(input.regex), j \in 1..Len(input.semantic) :
          /\ JaccardAbove(input.regex[i].description, input.semantic[j].description, 6, 10)
          /\ ~JaccardAbove(input.regex[i].title, input.semantic[j].title, 7, 10)
    /\ Len(input.semantic) + Len(input.regex) > 9

(* ---------------------------------------------------------------------- *)
(* The decomposer applied to a page                                        *)
(* ---------------------------------------------------------------------- *)
MaxTextWords == 3

(* words and phrases a page text is made of *)
TextWords == {"motor", "ENGINE", "battery", "sensor", "frame", "content"}

PageTitles == {"uav", "Bridge", "turbine blade", "drone", "engine"}

PageInputs == [title : PageTitles, extract : SeqsOf(TextWords, MaxTextWords)]

(* analyze_page_semantically: the decomposition its principles are made   *)
(* from.  decompose_concept returns Ok on both of its paths, so the Err   *)
(* arm, the only reader of page.extract, is never taken.                   *)
analyze_page_semantically(page) ==
    decompose_concept(to_lowercase(page.title), 2)

PageInit ==
    /\ ServiceInit
    /\ input \in PageInputs
    /\ output = None

AnalyzePageSemantically ==
    /\ output = None
    /\ \E d \in analyze_page_semantically(input) : output' = [decomposition |-> d]
    /\ UNCHANGED <<cacheVars, apiVars, engineVars, input, tasks>>

SpecPage == PageInit /\ [][AnalyzePageSemantically]_vars

(* C25: a concept that has a registered sub-concept list, in any letter   *)
(* case, is decomposed from the knowledge base: confidence 0.95, one      *)
(* component per registered sub-concept, ordered by importance            *)
(* descending, every importance in [0,1].                                  *)
C25_RegisteredUsesKnowledgeBase ==
    (/\ output # None
     /\ "max_depth" \in DOMAIN input
     /\ to_lowercase(input.concept) \in DOMAIN concept_hierarchies) =>
        LET d == output.decomposition
            registered == concept_hierarchies[to_lowercase(input.concept)]
        IN  /\ d.confidence = 950
            /\ Len(d.components) = Len(registered)
            /\ {d.components[i].name : i \in 1..Len(d.components)} = Range(registered)
            /\ \A i, j \in 1..Len(d.components) :
                  i < j => d.components[i].importance >= d.components[j].importance
            /\ \A i \in 1..Len(d.components) :
                  d.components[i].importance \in 0..1000

(* the component names found in a lowercased text *)
ComponentNamesIn(text) ==
    {w \in {to_lowercase(text[i]) : i \in 1..Len(text)} :
        \E e \in 1..Len(component_extractors), j \in 1..2 :
            w \in component_extractors[e].patterns[j]}

(* C26: for a page whose concept the knowledge base does not have, the    *)
(* components are the distinct component names matched in the page's own  *)
(* lowercased text, each of importance weight x 0.8, and the confidence   *)
(* is the mean importance, 0 only when the text has no match.              *)
C26_ComponentsFromPageText ==
    (/\ output # None
     /\ "extract" \in DOMAIN input
     /\ to_lowercase(input.title) \notin DOMAIN concept_hierarchies
     /\ \A n \in normalize_concept(input.title) : n \notin DOMAIN concept_hierarchies) =>
        LET d == output.decomposition
        IN  /\ {d.components[i].name : i \in 1..Len(d.components)}
                  = ComponentNamesIn(input.extract)
            /\ Len(d.components) = Cardinality(ComponentNamesIn(input.extract))
            /\ \A i \in 1..Len(d.components) :
                  \E e \in 1..Len(component_extractors) :
                      d.components[i].importance = (component_extractors[e].weight * 8) \div 10
            /\ d.confidence * Len(d.components) <= SumImportance(d.components)
            /\ (d.confidence = 0) <=> (ComponentNamesIn(input.extract) = {})

====
